---------------------------- MODULE Spec2Model ----------------------------
(***************************************************************************)
(* gazebo::sensors::ImuSensor (gazebo/sensors/ImuSensor.cc) as a state     *)
(* machine.  One action per public method or transport callback; the       *)
(* physics world the sensor queries is the variable `world`, redrawn by    *)
(* every handler that reads it (the world moves freely between reads).     *)
(*                                                                         *)
(* Vectors are integer triples, quaternions integer 4-tuples <<w,x,y,z>>;  *)
(* orientations range over unit quaternions with integer components, so    *)
(* products, inverses and rotations are exact.                             *)
(***************************************************************************)
EXTENDS Integers, Sequences, FiniteSets, TLC

(***************************************************************************)
(* Bounds of the model and program constants.                              *)
(***************************************************************************)
\* incomingLinkData.size() > 100 (ImuSensor.cc:143)
Capacity == 100

\* accepted pushes explored by SpecBuffer (beyond Capacity, so eviction runs)
MaxPushes == 102

\* accepted pushes explored by Spec
MaxDeliveries == 1

\* update ticks explored by Spec
MaxTicks == 1

\* update ticks explored by SpecUpdate
MaxUpdates == 2

\* largest simulation timestamp the physics engine hands out
MaxTime == 2

\* largest discovery request / response id
MaxId == 2

\* unit of the velocity and gravity components: every difference of two
\* velocities is exactly divisible by every positive dt the model draws
VelUnit == 2 * 3

\* this->requestMsg = NULL (ImuSensor.cc:128)
NULL == 0

\* a boost::shared_ptr<physics::Link> that holds nothing / holds the parent link
NullEntity == "null"
LinkEntity == "link"

Ids == 1..MaxId
Times == 0..MaxTime

(***************************************************************************)
(* gazebo::math, as used by the sensor.                                    *)
(***************************************************************************)
Zero3 == <<0, 0, 0>>
QIdentity == <<1, 0, 0, 0>>

VSub(a, b) == <<a[1] - b[1], a[2] - b[2], a[3] - b[3]>>

\* Vector3::operator/(double): exact, every component is a multiple of dt
VDiv(a, d) == <<a[1] \div d, a[2] \div d, a[3] \div d>>

\* Quaternion::operator*: the Hamilton product
QMul(a, b) ==
  << a[1]*b[1] - a[2]*b[2] - a[3]*b[3] - a[4]*b[4],
     a[1]*b[2] + a[2]*b[1] + a[3]*b[4] - a[4]*b[3],
     a[1]*b[3] - a[2]*b[4] + a[3]*b[1] + a[4]*b[2],
     a[1]*b[4] + a[2]*b[3] - a[3]*b[2] + a[4]*b[1] >>

\* Quaternion::GetInverse: the conjugate over the squared norm
QInverse(q) ==
  LET s == q[1]*q[1] + q[2]*q[2] + q[3]*q[3] + q[4]*q[4]
  IN  IF s = 0 THEN QIdentity
      ELSE << q[1] \div s, (0 - q[2]) \div s, (0 - q[3]) \div s, (0 - q[4]) \div s >>

\* Quaternion::RotateVector: q * (0,v) * q^-1
RotateVector(q, v) ==
  LET t == QMul(q, QMul(<<0, v[1], v[2], v[3]>>, QInverse(q)))
  IN  <<t[2], t[3], t[4]>>

\* Pose::operator+ on the rotation: (a + b).rot = b.rot * a.rot
PoseAddRot(a, b) == QMul(b, a)

(***************************************************************************)
(* The values the physics world and the sensor description can take.       *)
(***************************************************************************)
\* identity, half turn about x, half turn about y (they do not commute)
Rots == { QIdentity, <<0, 1, 0, 0>>, <<0, 0, 1, 0>> }

\* the sensor's mount orientation in its parent link (<pose> of the sdf)
MountRots == { QIdentity, <<0, 0, 0, 1>> }

LinVels == { Zero3, <<VelUnit, 0, 0>> }
AngVels == { <<0, 0, 1>> }
Gravities == { <<0, 0, 0 - VelUnit>> }

\* what the physics engine answers to one round of queries
Worlds ==
  [ rot : Rots, linVel : LinVels, angVel : AngVels,
    gravity : Gravities, time : Times ]

\* the worlds of a parent link at rest
RestWorlds ==
  [ rot : Rots, linVel : {Zero3}, angVel : {Zero3},
    gravity : Gravities, time : Times ]

\* the worlds Spec draws from: every orientation, the clock at rest or advanced
FewWorlds == { w \in Worlds : w.linVel # Zero3 /\ w.time \in {0, MaxTime} }

\* msgs::IMU before any field is set
EmptyImuMsg ==
  [ stamp |-> 0, orientation |-> QIdentity,
    angular_velocity |-> Zero3, linear_acceleration |-> Zero3 ]

(***************************************************************************)
(* The sensor's state.                                                     *)
(***************************************************************************)
VARIABLES
  pose,                 \* Sensor::pose.rot, the mount orientation
  parentEntity,         \* NullEntity or LinkEntity
  loadState,            \* "none", "ok", or "failed" (Load threw)
  crashed,              \* the process died dereferencing a null parentEntity
  pub,                  \* this->pub holds a publisher
  requestMsg,           \* NULL or the id of the outstanding request
  responseSub,          \* "none", "response" (~/response) or "link" (link data)
  nLinkSubs,            \* how many times the link-data topic was subscribed
  active,               \* Sensor::IsActive()
  incomingLinkData,     \* the buffered link-data messages, oldest first
  pushed,               \* history: every message stored by OnLinkData, in order
  referencePose,        \* referencePose.rot
  lastLinearVel,
  lastMeasurementTime,
  linearAcc,
  gravity,
  imuMsg,               \* the reading the accessors return
  nPublished,           \* messages handed to this->pub
  lastPublished,        \* the last message handed to this->pub
  nTicks,               \* how many times UpdateImpl ran
  world,                \* the physics state as the sensor last saw it
  fini,                 \* Fini was called
  mutex,                \* this->mutex: "free", or the context that holds it
  upc,                  \* where the update context is inside UpdateImpl
  dpc,                  \* where the delivery context is inside OnLinkData
  op                    \* the operation that produced this state

vars ==
  << pose, parentEntity, loadState, crashed, pub, requestMsg, responseSub,
     nLinkSubs, active, incomingLinkData, pushed, referencePose, lastLinearVel,
     lastMeasurementTime, linearAcc, gravity, imuMsg, nPublished, lastPublished,
     nTicks, world, fini, mutex, upc, dpc, op >>

discoveryVars == << pub, requestMsg, responseSub, nLinkSubs >>
bufferVars == << incomingLinkData, pushed >>
diffVars == << lastLinearVel, lastMeasurementTime, linearAcc, gravity >>
outputVars == << imuMsg, nPublished, lastPublished, nTicks >>
lockVars == << mutex, upc, dpc >>

\* every variable but op
sensorVars ==
  << pose, parentEntity, loadState, crashed, pub, requestMsg, responseSub,
     nLinkSubs, active, incomingLinkData, pushed, referencePose, lastLinearVel,
     lastMeasurementTime, linearAcc, gravity, imuMsg, nPublished, lastPublished,
     nTicks, world, fini, mutex, upc, dpc >>

Op(name, id) == [ name |-> name, id |-> id ]

\* The state after construction: nothing loaded, every math member at its
\* default (zero vector, identity rotation, time zero), the sensor inactive.
Init ==
  /\ pose \in MountRots
  /\ parentEntity = NullEntity
  /\ loadState = "none"
  /\ crashed = FALSE
  /\ pub = FALSE
  /\ requestMsg = NULL
  /\ responseSub = "none"
  /\ nLinkSubs = 0
  /\ active = FALSE
  /\ incomingLinkData = << >>
  /\ pushed = << >>
  /\ referencePose = QIdentity
  /\ lastLinearVel = Zero3
  /\ lastMeasurementTime = 0
  /\ linearAcc = Zero3
  /\ gravity = Zero3
  /\ imuMsg = EmptyImuMsg
  /\ nPublished = 0
  /\ lastPublished = EmptyImuMsg
  /\ nTicks = 0
  /\ world = [ rot |-> QIdentity, linVel |-> Zero3, angVel |-> Zero3,
               gravity |-> Zero3, time |-> 0 ]
  /\ fini = FALSE
  /\ mutex = "free"
  /\ upc = "idle"
  /\ dpc = "idle"
  /\ op = Op("new", 0)

(***************************************************************************)
(* ImuSensor::Load(_worldName, _sdf): advertise the output topic (either   *)
(* branch sets this->pub), advertise ~/request, subscribe ~/response with  *)
(* OnResponse, create and publish the link_publish request.                *)
(***************************************************************************)
LoadSdf(id) ==
  /\ ~crashed
  /\ ~pub
  /\ pub' = TRUE
  /\ responseSub' = "response"
  /\ requestMsg' = id
  /\ op' = Op("LoadSdf", id)
  /\ UNCHANGED << pose, parentEntity, loadState, crashed, nLinkSubs, active,
                  bufferVars, referencePose, diffVars, outputVars, world, fini, lockVars >>

\* The check of the cast's result left out: Load never throws.
InvalidParent_Unchecked(entity) == FALSE

\* if (!this->parentEntity)
InvalidParent(entity) == entity = NullEntity

\* this->referencePose = this->pose + this->parentEntity->GetWorldPose()
CaptureReference(mount, parentRot) == PoseAddRot(mount, parentRot)

(***************************************************************************)
(* ImuSensor::Load(_worldName): resolve the parent, which is a link        *)
(* (isLink) or not; throw if it is not, else capture the reference pose    *)
(* and the first velocity from the parent's pose r and velocity v.         *)
(***************************************************************************)
Load(isLink, r, v) ==
  /\ ~crashed
  /\ loadState = "none"
  /\ parentEntity' = IF isLink THEN LinkEntity ELSE NullEntity
  /\ IF InvalidParent(parentEntity')
       THEN /\ loadState' = "failed"
            /\ UNCHANGED << referencePose, lastLinearVel, world >>
       ELSE /\ loadState' = "ok"
            /\ referencePose' = CaptureReference(pose, r)
            /\ lastLinearVel' = RotateVector(referencePose', v)
            /\ world' = [ world EXCEPT !.rot = r, !.linVel = v ]
  /\ op' = Op("Load", 0)
  /\ UNCHANGED << pose, crashed, discoveryVars, active, bufferVars,
                  lastMeasurementTime, linearAcc, gravity, outputVars, fini,
                  lockVars >>

\* ImuSensor::Fini: the body is empty
Fini ==
  /\ ~crashed
  /\ ~fini
  /\ fini' = TRUE
  /\ op' = Op("Fini", 0)
  /\ UNCHANGED << pose, parentEntity, loadState, crashed, discoveryVars, active,
                  bufferVars, referencePose, diffVars, outputVars, world,
                  lockVars >>

\* Sensor::SetActive, the owner's activate / deactivate call
SetActive(value) ==
  /\ ~crashed
  /\ active' = value
  /\ op' = Op("SetActive", 0)
  /\ UNCHANGED << pose, parentEntity, loadState, crashed, discoveryVars,
                  bufferVars, referencePose, diffVars, outputVars, world, fini, lockVars >>

\* The id comparison left out: any response is taken while a request is pending.
ResponseAccepted_AnyId(req, id) == req # NULL

\* the test of OnResponse's early return, negated
ResponseAccepted(req, id) == req # NULL /\ id = req

\* The request left pending after the match.
RequestAfterMatch_Kept(req) == req

\* delete this->requestMsg; this->requestMsg = NULL
RequestAfterMatch(req) == NULL

(***************************************************************************)
(* ImuSensor::OnResponse: a response with this id arrives on ~/response.   *)
(* A rejected response returns at once.  An accepted one dereferences      *)
(* parentEntity (a null one ends the process), rebinds responseSub to the  *)
(* link's topic with OnLinkData, and clears the request.  A response       *)
(* already dispatched may still arrive after responseSub was rebound.      *)
(***************************************************************************)
OnResponse(id) ==
  /\ ~crashed
  /\ responseSub # "none"
  /\ op' = Op("OnResponse", id)
  /\ IF ~ResponseAccepted(requestMsg, id)
       THEN UNCHANGED << crashed, requestMsg, responseSub, nLinkSubs >>
       ELSE IF parentEntity = NullEntity
         THEN /\ crashed' = TRUE
              /\ UNCHANGED << requestMsg, responseSub, nLinkSubs >>
         ELSE /\ responseSub' = "link"
              /\ nLinkSubs' = nLinkSubs + 1
              /\ requestMsg' = RequestAfterMatch(requestMsg)
              /\ UNCHANGED crashed
  /\ UNCHANGED << pose, parentEntity, loadState, pub, active, bufferVars,
                  referencePose, diffVars, outputVars, world, fini, lockVars >>

\* pop_back in place of pop_front: the newest message is the one evicted.
StoreLinkData_PopBack(buf, msg) ==
  LET grown == Append(buf, msg)
  IN  IF Len(grown) > Capacity THEN SubSeq(grown, 1, Capacity) ELSE grown

\* push_back, then pop_front once the size is over 100
StoreLinkData(buf, msg) ==
  LET grown == Append(buf, msg)
  IN  IF Len(grown) > Capacity THEN Tail(grown) ELSE grown

\* The IsActive test left out: every delivery is stored.
LinkDataAfter_AlwaysStore(isActive, buf, msg) ==
  LET grown == Append(buf, msg)
  IN  IF Len(grown) > Capacity THEN Tail(grown) ELSE grown

\* the body of OnLinkData under the lock
LinkDataAfter(isActive, buf, msg) ==
  IF isActive THEN StoreLinkData(buf, msg) ELSE buf

\* OnLinkData taking the message's time as the time of the last measurement.
OnLinkData_Stamps(msg) ==
  /\ ~crashed
  /\ responseSub = "link"
  /\ incomingLinkData' = LinkDataAfter(active, incomingLinkData, msg)
  /\ pushed' = IF active THEN Append(pushed, msg) ELSE pushed
  /\ lastMeasurementTime' = msg
  /\ op' = Op("OnLinkData", msg)
  /\ UNCHANGED << pose, parentEntity, loadState, crashed, discoveryVars, active,
                  referencePose, lastLinearVel, linearAcc, gravity, outputVars,
                  world, fini, lockVars >>

(***************************************************************************)
(* ImuSensor::OnLinkData: the link-data topic delivers msg.                *)
(***************************************************************************)
OnLinkData(msg) ==
  /\ ~crashed
  /\ responseSub = "link"
  /\ incomingLinkData' = LinkDataAfter(active, incomingLinkData, msg)
  /\ pushed' = IF active THEN Append(pushed, msg) ELSE pushed
  /\ op' = Op("OnLinkData", msg)
  /\ UNCHANGED << pose, parentEntity, loadState, crashed, discoveryVars, active,
                  referencePose, diffVars, outputVars, world, fini, lockVars >>

(***************************************************************************)
(* ImuSensor::SetReferencePose: re-zero on the parent's current pose r.    *)
(***************************************************************************)
SetReferencePose(r) ==
  /\ ~crashed
  /\ op' = Op("SetReferencePose", 0)
  /\ IF parentEntity = NullEntity
       THEN /\ crashed' = TRUE
            /\ UNCHANGED << referencePose, world >>
       ELSE /\ referencePose' = CaptureReference(pose, r)
            /\ world' = [ world EXCEPT !.rot = r ]
            /\ UNCHANGED crashed
  /\ UNCHANGED << pose, parentEntity, loadState, discoveryVars, active,
                  bufferVars, diffVars, outputVars, fini,
                  lockVars >>

\* math::Pose imuPose = this->pose + parentEntityPose
ImuPoseRot(mount, parentRot) == PoseAddRot(mount, parentRot)

\* GetInverse() left out: the product with the reference itself.
RelativeOrientation_NoInverse(imuRot, ref) == QMul(imuRot, ref)

\* imuPose.rot * this->referencePose.rot.GetInverse()
RelativeOrientation(imuRot, ref) == QMul(imuRot, QInverse(ref))

\* imuPose.rot.GetInverse().RotateVector(GetWorldAngularVel())
BodyAngularVel(imuRot, angVel) == RotateVector(QInverse(imuRot), angVel)

\* if (dt > 0.0) this->linearAcc = ...; otherwise linearAcc keeps its value
Differentiated(acc, imuRot, vel, lastVel, dt) ==
  IF dt > 0
    THEN RotateVector(QInverse(imuRot), VDiv(VSub(vel, lastVel), dt))
    ELSE acc

\* The assignment of lastLinearVel left out: the velocity of Load is kept.
CarriedVel_Stale(vel, lastVel, dt) == lastVel

\* this->lastLinearVel = imuWorldLinearVel, inside if (dt > 0.0)
CarriedVel(vel, lastVel, dt) == IF dt > 0 THEN vel ELSE lastVel

\* The assignment moved out of the if, as in the commented-out line 178.
CarriedTime_Unconditional(timestamp, lastTime, dt) == timestamp

\* this->lastMeasurementTime = timestamp, inside if (dt > 0.0)
CarriedTime(timestamp, lastTime, dt) == IF dt > 0 THEN timestamp ELSE lastTime

\* this->linearAcc -= imuPose.rot.GetInverse().RotateVector(this->gravity)
WithGravity(acc, imuRot, g) == VSub(acc, RotateVector(QInverse(imuRot), g))

\* The test of this->pub left out: Publish is called on every tick.
PublishedAfter_Unguarded(hasPub, n) == n + 1

\* if (this->pub) this->pub->Publish(this->imuMsg)
PublishedAfter(hasPub, n) == IF hasPub THEN n + 1 ELSE n

\* UpdateImpl publishing only when forced: if (this->pub && _force).
TickOutcome_PublishIfForced(w, force) ==
  LET dt == w.time - lastMeasurementTime
      imuRot == ImuPoseRot(pose, w.rot)
      acc == WithGravity(
               Differentiated(linearAcc, imuRot, w.linVel, lastLinearVel, dt),
               imuRot, w.gravity)
      msg == [ stamp |-> w.time,
               orientation |-> RelativeOrientation(imuRot, referencePose),
               angular_velocity |-> BodyAngularVel(imuRot, w.angVel),
               linear_acceleration |-> acc ]
  IN  [ linearAcc |-> acc,
        lastLinearVel |-> CarriedVel(w.linVel, lastLinearVel, dt),
        lastMeasurementTime |-> CarriedTime(w.time, lastMeasurementTime, dt),
        gravity |-> w.gravity,
        imuMsg |-> msg,
        nPublished |-> PublishedAfter(pub /\ force, nPublished),
        lastPublished |-> IF pub /\ force THEN msg ELSE lastPublished ]

(***************************************************************************)
(* The values one run of UpdateImpl(_force) leaves in the sensor, computed *)
(* from the current state and the physics engine's answers w.  The         *)
(* parameter is unnamed in the source (bool /*_force*/) and never read.    *)
(* timestamp is default-constructed and handed to GetWorldLinearVel, which *)
(* may set it to any time or leave it 0: w.time ranges over both.          *)
(***************************************************************************)
TickOutcome(w, force) ==
  LET dt == w.time - lastMeasurementTime
      imuRot == ImuPoseRot(pose, w.rot)
      acc == WithGravity(
               Differentiated(linearAcc, imuRot, w.linVel, lastLinearVel, dt),
               imuRot, w.gravity)
      msg == [ stamp |-> w.time,
               orientation |-> RelativeOrientation(imuRot, referencePose),
               angular_velocity |-> BodyAngularVel(imuRot, w.angVel),
               linear_acceleration |-> acc ]
  IN  [ linearAcc |-> acc,
        lastLinearVel |-> CarriedVel(w.linVel, lastLinearVel, dt),
        lastMeasurementTime |-> CarriedTime(w.time, lastMeasurementTime, dt),
        gravity |-> w.gravity,
        imuMsg |-> msg,
        nPublished |-> PublishedAfter(pub, nPublished),
        lastPublished |-> IF pub THEN msg ELSE lastPublished ]

\* history: how many ticks in a row, this one included, took the dt > 0
\* branch (0 when this one did not)
Streak(w) ==
  IF w.time - lastMeasurementTime > 0
    THEN IF op.name = "UpdateImpl" THEN op.id + 1 ELSE 1
    ELSE 0

(***************************************************************************)
(* What one run of UpdateImpl assigns.  The first query dereferences       *)
(* parentEntity: a null one ends the process before anything is set or     *)
(* published.                                                              *)
(***************************************************************************)
UpdateImplBody(w, force) ==
  /\ ~crashed
  /\ IF parentEntity = NullEntity
       THEN /\ crashed' = TRUE
            /\ op' = Op("UpdateImpl", 0)
            /\ UNCHANGED << diffVars, outputVars, world >>
       ELSE \E o \in { TickOutcome(w, force) } :
                /\ world' = w
                /\ op' = Op("UpdateImpl", Streak(w))
                /\ linearAcc' = o.linearAcc
                /\ lastLinearVel' = o.lastLinearVel
                /\ lastMeasurementTime' = o.lastMeasurementTime
                /\ gravity' = o.gravity
                /\ imuMsg' = o.imuMsg
                /\ nPublished' = o.nPublished
                /\ lastPublished' = o.lastPublished
                /\ nTicks' = nTicks + 1
                /\ UNCHANGED crashed

\* UpdateImpl re-zeroing the reference on the pose it has just read.
UpdateImpl_Rezero(w, force) ==
  /\ UpdateImplBody(w, force)
  /\ referencePose' = ImuPoseRot(pose, w.rot)
  /\ UNCHANGED << pose, parentEntity, loadState, discoveryVars, active,
                  bufferVars, fini, lockVars >>

\* UpdateImpl consuming the oldest buffered sample on every tick.
UpdateImpl_Drains(w, force) ==
  /\ UpdateImplBody(w, force)
  /\ incomingLinkData' =
       IF incomingLinkData = << >> THEN << >> ELSE Tail(incomingLinkData)
  /\ UNCHANGED << pose, parentEntity, loadState, discoveryVars, active,
                  pushed, referencePose, fini, lockVars >>

(***************************************************************************)
(* ImuSensor::UpdateImpl: the body, and everything else left alone.        *)
(***************************************************************************)
UpdateImpl(w, force) ==
  /\ UpdateImplBody(w, force)
  /\ UNCHANGED << pose, parentEntity, loadState, discoveryVars, active,
                  bufferVars, referencePose, fini, lockVars >>

(***************************************************************************)
(* The two handlers that take this->mutex, step by step.  The actions      *)
(* above run each handler from its lock to its unlock in one step; the     *)
(* steps below let the update context (the sensor manager's thread) and    *)
(* the delivery context (the transport's thread) interleave.               *)
(***************************************************************************)

\* UpdateImpl: boost::mutex::scoped_lock lock(this->mutex), blocking while
\* the delivery context holds it
UpLock ==
  /\ ~crashed
  /\ upc = "idle"
  /\ mutex = "free"
  /\ mutex' = "update"
  /\ upc' = "differentiate"
  /\ op' = Op("UpLock", 0)
  /\ UNCHANGED << pose, parentEntity, loadState, crashed, discoveryVars, active,
                  bufferVars, referencePose, diffVars, outputVars, world, fini,
                  dpc >>

\* UpdateImpl from the first physics query to the gravity term: the message
\* is filled, the velocity differentiated, all inside the lock's scope
UpCompute(w, force) ==
  /\ ~crashed
  /\ upc = "differentiate"
  /\ op' = Op("UpCompute", 0)
  /\ IF parentEntity = NullEntity
       THEN /\ crashed' = TRUE
            /\ UNCHANGED << diffVars, imuMsg, world, upc >>
       ELSE \E o \in { TickOutcome(w, force) } :
                /\ world' = w
                /\ linearAcc' = o.linearAcc
                /\ lastLinearVel' = o.lastLinearVel
                /\ lastMeasurementTime' = o.lastMeasurementTime
                /\ gravity' = o.gravity
                /\ imuMsg' = o.imuMsg
                /\ upc' = "publish"
                /\ UNCHANGED crashed
  /\ UNCHANGED << pose, parentEntity, loadState, discoveryVars, active,
                  bufferVars, referencePose, nPublished, lastPublished, nTicks,
                  fini, mutex, dpc >>

\* UpdateImpl: if (this->pub) this->pub->Publish(this->imuMsg), then the end
\* of the function, where the scoped lock is released
UpPublish ==
  /\ ~crashed
  /\ upc = "publish"
  /\ nPublished' = PublishedAfter(pub, nPublished)
  /\ lastPublished' = IF pub THEN imuMsg ELSE lastPublished
  /\ nTicks' = nTicks + 1
  /\ mutex' = "free"
  /\ upc' = "idle"
  /\ op' = Op("UpPublish", 0)
  /\ UNCHANGED << pose, parentEntity, loadState, crashed, discoveryVars, active,
                  bufferVars, referencePose, diffVars, imuMsg, world, fini, dpc >>

\* the transport calls OnLinkData with the next message
DlArrive ==
  /\ ~crashed
  /\ responseSub = "link"
  /\ dpc = "idle"
  /\ dpc' = "lock"
  /\ op' = Op("DlArrive", 0)
  /\ UNCHANGED << pose, parentEntity, loadState, crashed, discoveryVars, active,
                  bufferVars, referencePose, diffVars, outputVars, world, fini,
                  mutex, upc >>

\* The lock taken without waiting for its holder.
DlLock_NoWait ==
  /\ ~crashed
  /\ dpc = "lock"
  /\ mutex' = "delivery"
  /\ dpc' = "store"
  /\ op' = Op("DlLock", 0)
  /\ UNCHANGED << pose, parentEntity, loadState, crashed, discoveryVars, active,
                  bufferVars, referencePose, diffVars, outputVars, world, fini,
                  upc >>

\* OnLinkData: boost::mutex::scoped_lock lock(this->mutex), blocking while
\* the update context holds it
DlLock ==
  /\ ~crashed
  /\ dpc = "lock"
  /\ mutex = "free"
  /\ mutex' = "delivery"
  /\ dpc' = "store"
  /\ op' = Op("DlLock", 0)
  /\ UNCHANGED << pose, parentEntity, loadState, crashed, discoveryVars, active,
                  bufferVars, referencePose, diffVars, outputVars, world, fini,
                  upc >>

\* OnLinkData: if (this->IsActive()) push_back(_msg); an inactive sensor's
\* delivery ends here and releases the lock
DlPush ==
  /\ ~crashed
  /\ dpc = "store"
  /\ IF active
       THEN /\ incomingLinkData' = Append(incomingLinkData, Len(pushed) + 1)
            /\ pushed' = Append(pushed, Len(pushed) + 1)
            /\ dpc' = "trim"
            /\ op' = Op("DlPush", Len(pushed) + 1)
            /\ UNCHANGED mutex
       ELSE /\ dpc' = "idle"
            /\ mutex' = "free"
            /\ op' = Op("DlPush", 0)
            /\ UNCHANGED bufferVars
  /\ UNCHANGED << pose, parentEntity, loadState, crashed, discoveryVars, active,
                  referencePose, diffVars, outputVars, world, fini, upc >>

\* OnLinkData: if (size() > 100) pop_front(), then the end of the function,
\* where the scoped lock is released
DlTrim ==
  /\ ~crashed
  /\ dpc = "trim"
  /\ incomingLinkData' =
       IF Len(incomingLinkData) > Capacity
         THEN Tail(incomingLinkData)
         ELSE incomingLinkData
  /\ dpc' = "idle"
  /\ mutex' = "free"
  /\ op' = Op("DlTrim", 0)
  /\ UNCHANGED << pose, parentEntity, loadState, crashed, discoveryVars, active,
                  pushed, referencePose, diffVars, outputVars, world, fini, upc >>

(***************************************************************************)
(* Spec: every operation, in any order the owner and the transport may     *)
(* call them, over a small world.                                          *)
(***************************************************************************)
Next ==
  \/ \E id \in Ids : LoadSdf(id)
  \/ \E isLink \in BOOLEAN, r \in Rots : Load(isLink, r, Zero3)
  \/ \E id \in Ids : OnResponse(id)
  \/ \E value \in BOOLEAN : SetActive(value)
  \/ Len(pushed) < MaxDeliveries /\ OnLinkData(Len(pushed) + 1)
  \/ \E r \in Rots : SetReferencePose(r)
  \/ nTicks < MaxTicks /\ \E w \in FewWorlds, force \in BOOLEAN : UpdateImpl(w, force)
  \/ Fini

Spec == Init /\ [][Next]_vars

(***************************************************************************)
(* SpecBuffer: the discovery handshake and the link-data buffer, with      *)
(* enough deliveries to overflow it.                                       *)
(***************************************************************************)
NextBuffer ==
  \/ \E id \in Ids : LoadSdf(id)
  \/ Load(TRUE, QIdentity, Zero3)
  \/ \E id \in Ids : OnResponse(id)
  \/ \E value \in BOOLEAN : SetActive(value)
  \/ Len(pushed) < MaxPushes /\ OnLinkData(Len(pushed) + 1)

SpecBuffer == Init /\ [][NextBuffer]_vars

(***************************************************************************)
(* SpecUpdate: the kinematic pipeline over the whole world: load, re-zero  *)
(* and a run of update ticks; the readings are those the accessors return. *)
(***************************************************************************)
NextUpdate ==
  \/ \E r \in Rots, v \in LinVels : Load(TRUE, r, v)
  \/ \E r \in Rots : SetReferencePose(r)
  \/ nTicks < MaxUpdates /\ \E w \in Worlds, force \in BOOLEAN : UpdateImpl(w, force)

SpecUpdate == Init /\ [][NextUpdate]_vars

(***************************************************************************)
(* SpecRest: the kinematic pipeline while the parent link stays at rest.   *)
(***************************************************************************)
NextRest ==
  \/ \E r \in Rots : Load(TRUE, r, Zero3)
  \/ \E r \in Rots : SetReferencePose(r)
  \/ nTicks < MaxUpdates /\ \E w \in RestWorlds, force \in BOOLEAN : UpdateImpl(w, force)

SpecRest == Init /\ [][NextRest]_vars

\* the physics answers of a link that moves without turning
StreamWorlds == { w \in FewWorlds : w.rot = QIdentity }

(***************************************************************************)
(* SpecStream: link data streaming in, past the buffer's capacity, while   *)
(* the sensor is activated, deactivated and ticked.                        *)
(***************************************************************************)
NextStream ==
  \/ \E id \in Ids : LoadSdf(id)
  \/ Load(TRUE, QIdentity, Zero3)
  \/ \E id \in Ids : OnResponse(id)
  \/ \E value \in BOOLEAN : SetActive(value)
  \/ Len(pushed) < MaxPushes /\ OnLinkData(Len(pushed) + 1)
  \/ nTicks < MaxTicks /\ \E w \in StreamWorlds, force \in BOOLEAN : UpdateImpl(w, force)

SpecStream == Init /\ [][NextStream]_vars

(***************************************************************************)
(* SpecLock: the update context and the delivery context running side by   *)
(* side, each a step at a time, with enough deliveries to overflow the     *)
(* buffer.                                                                 *)
(***************************************************************************)
NextLock ==
  \/ \E id \in Ids : LoadSdf(id)
  \/ Load(TRUE, QIdentity, Zero3)
  \/ \E id \in Ids : OnResponse(id)
  \/ \E value \in BOOLEAN : SetActive(value)
  \/ Len(pushed) < MaxPushes /\ DlArrive
  \/ DlLock
  \/ DlPush
  \/ DlTrim
  \/ nTicks < MaxTicks /\ UpLock
  \/ \E w \in StreamWorlds, force \in BOOLEAN : UpCompute(w, force)
  \/ UpPublish

SpecLock == Init /\ [][NextLock]_vars

(***************************************************************************)
(* The properties.                                                         *)
(***************************************************************************)

\* the last n elements of s, or all of s when it is shorter
LastN(s, n) == IF Len(s) > n THEN SubSeq(s, Len(s) - n + 1, Len(s)) ELSE s

\* C1: after every push the buffer holds at most 100 samples, and they are
\* the most recently stored ones in the order they were stored: once more
\* than 100 were stored, exactly the newest 100.
C1_BufferKeepsNewest ==
  /\ Len(incomingLinkData) <= Capacity
  /\ incomingLinkData = LastN(pushed, Capacity)

\* A push has overflowed the buffer more than once.
C1_Witness ==
  /\ op.name = "OnLinkData"
  /\ active
  /\ Len(pushed) > Capacity + 1
  /\ Len(incomingLinkData) = Capacity

\* C2: a delivery that arrives while the sensor is inactive leaves the
\* buffer's contents (and so its size) exactly as they were.
C2_InactiveDeliveryDropped ==
  [][ (op'.name = "OnLinkData" /\ ~active)
        => incomingLinkData' = incomingLinkData ]_vars

\* A delivery was dropped while the buffer was full.
C2_Witness ==
  /\ op.name = "OnLinkData"
  /\ ~active
  /\ Len(incomingLinkData) = Capacity

\* C3: on a tick that follows another tick and whose dt is not positive,
\* lastLinearVel, lastMeasurementTime and the reported linear acceleration
\* are what they were after the prior tick.
C3_IdleTickHoldsAcceleration ==
  [][ ( /\ op'.name = "UpdateImpl"
        /\ ~crashed'
        /\ nTicks >= 1
        /\ imuMsg'.stamp - lastMeasurementTime <= 0 )
        => /\ lastLinearVel' = lastLinearVel
           /\ lastMeasurementTime' = lastMeasurementTime
           /\ imuMsg'.linear_acceleration = imuMsg.linear_acceleration ]_vars

\* C4: a response whose id is not the outstanding request's changes nothing:
\* no link-data subscription is opened and the request stays outstanding.
C4_MismatchIgnored ==
  [][ ( /\ op'.name = "OnResponse"
        /\ requestMsg # NULL
        /\ op'.id # requestMsg )
        => /\ UNCHANGED sensorVars
           /\ requestMsg' # NULL
           /\ responseSub' # "link" ]_vars

\* A foreign response arrived while the request was outstanding.
C4_Witness ==
  /\ op.name = "OnResponse"
  /\ requestMsg # NULL
  /\ op.id # requestMsg
  /\ responseSub = "response"
  /\ nLinkSubs = 0

\* C5: the link-data subscription is opened only by a response carrying the
\* outstanding request's id; that response opens it and clears the request;
\* a response that finds no request outstanding changes nothing; so the
\* subscription is opened at most once.
C5_SubscribedOnceOnMatch ==
  [][ /\ (nLinkSubs' # nLinkSubs \/ (responseSub' = "link" /\ responseSub # "link"))
          => /\ op'.name = "OnResponse"
             /\ requestMsg # NULL
             /\ op'.id = requestMsg
      /\ ( /\ op'.name = "OnResponse"
           /\ requestMsg # NULL
           /\ op'.id = requestMsg
           /\ parentEntity = LinkEntity )
          => /\ responseSub' = "link"
             /\ nLinkSubs' = nLinkSubs + 1
             /\ requestMsg' = NULL
      /\ (op'.name = "OnResponse" /\ requestMsg = NULL)
          => UNCHANGED sensorVars
      /\ nLinkSubs' <= 1 ]_vars

\* A response arrived after the match: the subscription it opened has
\* already delivered a sample, and it is still the only one.
C5_Witness ==
  /\ op.name = "OnResponse"
  /\ requestMsg = NULL
  /\ responseSub = "link"
  /\ Len(pushed) >= 1
  /\ nLinkSubs = 1

\* C6: a tick of a sensor whose parent link resolved hands exactly one
\* message to the output channel when there is one, and it carries the
\* orientation, angular velocity and linear acceleration of that tick;
\* without an output channel the tick hands over nothing and raises no
\* error; nothing but a tick publishes.
C6_OneReadingPerTick ==
  [][ /\ (op'.name = "UpdateImpl" /\ parentEntity = LinkEntity)
          => /\ ~crashed'
             /\ nTicks' = nTicks + 1
             /\ imuMsg'.orientation =
                  QMul(QMul(world'.rot, pose), QInverse(referencePose))
             /\ imuMsg'.angular_velocity =
                  RotateVector(QInverse(QMul(world'.rot, pose)), world'.angVel)
             /\ imuMsg'.linear_acceleration = linearAcc'
             /\ imuMsg'.stamp = world'.time
             /\ loadState' = loadState
             /\ IF pub
                  THEN nPublished' = nPublished + 1 /\ lastPublished' = imuMsg'
                  ELSE nPublished' = nPublished /\ lastPublished' = lastPublished
      /\ (nPublished' # nPublished \/ lastPublished' # lastPublished)
          => op'.name = "UpdateImpl" ]_vars

\* A tick ran without an output channel and published nothing.
C6_Witness ==
  /\ op.name = "UpdateImpl"
  /\ ~crashed
  /\ ~pub
  /\ nTicks = 1
  /\ nPublished = 0
  /\ imuMsg.orientation # QIdentity

\* C7: once Fini has run, the subscription is released and the buffer is
\* empty.
C7_ShutdownReleases ==
  fini => (responseSub = "none" /\ incomingLinkData = << >>)

\* C8: when Load could not resolve the parent to a link, it has reported the
\* error, no reference pose was captured, and the sensor has published no
\* reading and opened no link-data subscription.
C8_InvalidParentIsFatal ==
  (loadState # "none" /\ parentEntity = NullEntity)
    => /\ loadState = "failed"
       /\ referencePose = QIdentity
       /\ lastLinearVel = Zero3
       /\ nPublished = 0
       /\ imuMsg = EmptyImuMsg
       /\ nLinkSubs = 0
       /\ responseSub # "link"

\* After the failed Load a matching response arrived; nothing was subscribed.
C8_Witness ==
  /\ loadState = "failed"
  /\ pub
  /\ op.name = "OnResponse"
  /\ op.id = requestMsg
  /\ crashed
  /\ nLinkSubs = 0
  /\ nPublished = 0

\* C9: a tick taken while the sensor is inactive publishes nothing and
\* leaves the current reading and the differentiator's state as they were.
C9_InactiveTickSilent ==
  [][ (op'.name = "UpdateImpl" /\ ~active)
        => /\ nPublished' = nPublished
           /\ imuMsg' = imuMsg
           /\ UNCHANGED << lastLinearVel, lastMeasurementTime, linearAcc >> ]_vars

\* C10: the reference orientation changes only in Load and SetReferencePose;
\* an update tick, a link-data delivery and a discovery response leave it
\* as it was, wherever the parent has moved.
C10_ReferenceFixed ==
  [][ /\ referencePose' # referencePose
          => op'.name \in {"Load", "SetReferencePose"}
      /\ op'.name \in {"UpdateImpl", "OnLinkData", "OnResponse"}
          => referencePose' = referencePose ]_vars

\* A tick saw the parent turned away from the reference and left it alone.
C10_Witness ==
  /\ op.name = "UpdateImpl"
  /\ ~crashed
  /\ loadState = "ok"
  /\ nTicks >= 1
  /\ referencePose # QMul(world.rot, pose)
  /\ imuMsg.orientation # QIdentity

\* C11: whatever the physics engine answers, a tick called with force set
\* and one called with it clear leave the same values in the sensor and hand
\* the same message to the output channel.
C11_ForceInert ==
  [][ (op'.name = "UpdateImpl" /\ parentEntity = LinkEntity)
        => \A force \in BOOLEAN :
             \E o \in { TickOutcome(world', force) } :
               /\ linearAcc' = o.linearAcc
               /\ lastLinearVel' = o.lastLinearVel
               /\ lastMeasurementTime' = o.lastMeasurementTime
               /\ gravity' = o.gravity
               /\ imuMsg' = o.imuMsg
               /\ nPublished' = o.nPublished
               /\ lastPublished' = o.lastPublished ]_vars

\* A loaded sensor with an output channel has ticked and published.
C11_Witness ==
  /\ op.name = "UpdateImpl"
  /\ parentEntity = LinkEntity
  /\ pub
  /\ nPublished >= 1
  /\ lastPublished = imuMsg

\* the acceleration a tick stored, with the gravity term it subtracted put back
PreGravity(acc, parentRot, g) ==
  VSub(acc, VSub(Zero3, RotateVector(QInverse(QMul(parentRot, pose)), g)))

\* C12 as stated: when a tick directly follows a tick that saw the same world
\* linear velocity, and has dt > 0, the acceleration it computes before the
\* gravity term is zero, whether or not the earlier tick had dt > 0.
C12_ConstantVelocityZeroAcc ==
  [][ ( /\ op.name = "UpdateImpl"
        /\ ~crashed
        /\ op'.name = "UpdateImpl"
        /\ world'.linVel = world.linVel
        /\ world'.time - lastMeasurementTime > 0 )
        => PreGravity(linearAcc', world'.rot, world'.gravity) = Zero3 ]_vars

\* C12 amended: the same, provided the earlier tick had dt > 0 too (so that
\* it stored its velocity); it may be the first tick after Load.
C12_ConstantVelocityZeroAccAfterDiff ==
  [][ ( /\ op.name = "UpdateImpl"
        /\ ~crashed
        /\ op.id >= 1
        /\ op'.name = "UpdateImpl"
        /\ world'.linVel = world.linVel
        /\ world'.time - lastMeasurementTime > 0 )
        => PreGravity(linearAcc', world'.rot, world'.gravity) = Zero3 ]_vars

\* Two ticks in a row had dt > 0 and the second found no change of a
\* non-zero velocity.
C12_Witness ==
  /\ op.name = "UpdateImpl"
  /\ op.id >= 2
  /\ world.linVel # Zero3
  /\ lastLinearVel = world.linVel
  /\ PreGravity(linearAcc, world.rot, world.gravity) = Zero3

\* C13: on every tick of a run of ticks taken with the parent at rest (zero
\* linear and angular velocity, now and at the last measurement), the
\* sensor's orientation equal to the reference and to the world frame, and
\* gravity (0,0,-g), the reported linear acceleration is (0,0,+g), whatever
\* the tick's dt.  The run starts at the first tick; each later tick of it
\* directly follows one that met the same conditions and reported (0,0,+g).
C13_RestReportsPlusG ==
  [][ ( /\ op'.name = "UpdateImpl"
        /\ parentEntity = LinkEntity
        /\ \/ nTicks = 0
           \/ /\ op.name = "UpdateImpl"
              /\ QMul(world.rot, pose) = QIdentity
              /\ imuMsg.linear_acceleration = <<0, 0, VelUnit>>
        /\ world'.linVel = Zero3
        /\ world'.angVel = Zero3
        /\ lastLinearVel = Zero3
        /\ QMul(world'.rot, pose) = referencePose
        /\ QMul(world'.rot, pose) = QIdentity
        /\ world'.gravity = <<0, 0, 0 - VelUnit>> )
        => imuMsg'.linear_acceleration = <<0, 0, VelUnit>> ]_vars

\* C14: a tick that finds the sensor's world orientation equal to the
\* reference orientation reports the identity rotation.
C14_IdentityAtReference ==
  [][ ( /\ op'.name = "UpdateImpl"
        /\ parentEntity = LinkEntity
        /\ QMul(world'.rot, pose) = referencePose )
        => imuMsg'.orientation = QIdentity ]_vars

\* A tick found the parent where a capture away from the identity left it.
C14_Witness ==
  /\ op.name = "UpdateImpl"
  /\ ~crashed
  /\ nTicks >= 1
  /\ referencePose # QIdentity
  /\ world.rot # QIdentity
  /\ QMul(world.rot, pose) = referencePose
  /\ imuMsg.orientation = QIdentity

\* the larger of two times
MaxOf(a, b) == IF a >= b THEN a ELSE b

\* C18: lastMeasurementTime starts at its initial value 0, every tick leaves
\* it at the larger of its value and the tick's timestamp, and nothing else
\* changes it: it never decreases and is always the largest timestamp a tick
\* has seen, or 0.  A tick writes lastLinearVel and lastMeasurementTime
\* together (both, when its timestamp is the larger) or neither.
C18_LastTimeIsMaxSeen ==
  /\ lastMeasurementTime = 0
  /\ [][ /\ lastMeasurementTime' >= lastMeasurementTime
         /\ (op'.name = "UpdateImpl" /\ parentEntity = LinkEntity)
             => /\ lastMeasurementTime' =
                     MaxOf(lastMeasurementTime, world'.time)
                /\ world'.time > lastMeasurementTime
                     => /\ lastMeasurementTime' = world'.time
                        /\ lastLinearVel' = world'.linVel
                /\ world'.time <= lastMeasurementTime
                     => UNCHANGED << lastMeasurementTime, lastLinearVel >>
         /\ lastMeasurementTime' # lastMeasurementTime
             => op'.name = "UpdateImpl" ]_vars

\* A tick came with a timestamp older than the last measurement.
C18_Witness ==
  /\ op.name = "UpdateImpl"
  /\ ~crashed
  /\ nTicks >= 2
  /\ world.time < lastMeasurementTime
  /\ imuMsg.stamp = world.time

\* C17: a link-data delivery, stored or dropped, leaves the reference pose,
\* lastLinearVel, lastMeasurementTime, the stored linear acceleration and the
\* current reading as they were.
C17_DeliveryLeavesUpdateState ==
  [][ op'.name = "OnLinkData"
        => UNCHANGED << referencePose, lastLinearVel, lastMeasurementTime,
                        linearAcc, imuMsg >> ]_vars

\* A sample was stored after a tick had produced a reading away from the
\* reference.
C17_Witness ==
  /\ op.name = "OnLinkData"
  /\ active
  /\ Len(pushed) = 1
  /\ nTicks >= 1
  /\ imuMsg.orientation # QIdentity
  /\ linearAcc # Zero3

C15_LockOnlyForQueueOps ==
  (parentEntity = LinkEntity /\ upc \in {"differentiate", "publish"})
    => mutex # "update"

\* C16: the update context and the delivery context are never both inside
\* their critical sections (each is inside exactly while it holds the
\* lock); outside the delivery's critical section the buffer holds at most
\* 100 samples; while a tick holds the lock the buffer does not change, so
\* a push that arrived during the tick is stored only after the tick has
\* released the lock; and no step of a delivery alters the reading or the
\* differentiator's state.
C16_ContextsExcludeEachOther ==
  /\ mutex = "free" /\ upc = "idle" /\ dpc = "idle"
  /\ [][ /\ (mutex' = "update") <=> (upc' # "idle")
         /\ (mutex' = "delivery") <=> (dpc' \in {"store", "trim"})
         /\ ~(upc' # "idle" /\ dpc' \in {"store", "trim"})
         /\ dpc' \notin {"store", "trim"} => Len(incomingLinkData') <= Capacity
         /\ upc # "idle" => UNCHANGED bufferVars
         /\ incomingLinkData' # incomingLinkData
             => /\ upc = "idle"
                /\ mutex = "delivery"
         /\ op'.name \in {"DlArrive", "DlLock", "DlPush", "DlTrim"}
             => UNCHANGED << referencePose, diffVars, outputVars >> ]_vars

\* A delivery arrived for an active sensor with a full buffer while the tick
\* held the lock, between its differentiation and its publish step.
C16_Witness ==
  /\ op.name = "DlArrive"
  /\ dpc = "lock"
  /\ upc = "publish"
  /\ mutex = "update"
  /\ active
  /\ Len(pushed) > Capacity
  /\ Len(incomingLinkData) = Capacity
  /\ imuMsg.stamp = world.time

=============================================================================
